---- MODULE Spec2Model ----
(***************************************************************************)
(* A model of the React hooks of src/index.ts.  Each hook is a state       *)
(* machine of its own: its state cell(s), its refs, the updates queued by  *)
(* its setters between two renders, and the effects a render leaves to     *)
(* run.  A hook's specification moves only that hook's variables.          *)
(*                                                                         *)
(* React's part is modelled by its documented contract: a setter called    *)
(* with a function queues that function, the next render applies the       *)
(* queued updates in call order, an effect runs after the render whose     *)
(* dependencies differ from the previous render's (every effect after the  *)
(* first render), effects of one render run in declaration order, and      *)
(* unmounting runs the cleanups returned by the effects.                   *)
(***************************************************************************)
EXTENDS Integers, Sequences, FiniteSets, TLC

VARIABLES
    \* ---- useArray
    defaultValue,   \* the argument of useArray, <<>> when none is given
    array,          \* the array state as of the last render
    arrayQueue,     \* the updates queued by setArray since the last render
    arrayLog,       \* history: every arrayControl call made since mount
    \* ---- useLocalStorage
    storage,        \* window.localStorage: key -> <<>> (no item) or <<string>>
    key,            \* the key argument of the latest render
    initial,        \* the initial argument
    data,           \* the data state as of the latest render
    dataQueue,      \* the values passed to setData since the last render
    storageEffect,  \* TRUE while the effect of the latest render has yet to run
    renders,        \* number of renders of the useLocalStorage component
    \* ---- useTimeout and useDelay
    hook,           \* which of the two the component uses
    phase,          \* "mounting" (first render done), "mounted", "unmounted"
    callback,       \* the callback argument of the latest render
    delay,          \* the delay argument of the latest render
    dependencies,   \* the dependencies argument of the latest render (useDelay)
    callbackRef,    \* callbackRef.current
    timeoutRef,     \* timeoutRef.current, 0 for undefined
    dirty,          \* the effects the latest render left to run
    timers,         \* the ids of the pending browser timers
    nextTimer,      \* the id the next setTimeout returns
    invoked,        \* number of invocations of the callback so far
    lastCalled,     \* the callback invoked by the latest timer fire, 0 if none
    setWith,        \* history: the callback argument as of the latest set()
    firedId,        \* history: the id of the timer that fired last, 0 if none
    callsSinceSet,  \* history: invocations since the latest set()
    touched,        \* history: reset(), clear() or a changed delay/dependencies
    cleared,        \* history: clear() was called and no set() since
    lastOp,         \* history: the operation of the latest step
    \* ---- useUpdateEffect
    uePhase,        \* "mounting" (first render done), "mounted", "unmounted"
    ueCallback,     \* the callback argument of the latest render
    ueDependencies, \* the dependencies argument of the latest render
    isFirstRender,  \* isFirstRender.current
    uePending,      \* TRUE while the effect of the latest render has yet to run
    ueInvoked,      \* number of invocations of the callback so far
    ueLastCalled,   \* the callback invoked last, 0 if none
    ueChanges,      \* history: renders after the first with changed dependencies
    \* ---- useToggle
    toggleDefault,  \* the defaultValue argument of useToggle
    toggle,         \* the toggle state as of the last render
    toggleQueue,    \* the updates queued by setToggle since the last render
    toggleLog,      \* history: the argument of every changeToggle call
    \* ---- useWindowSize, useMouse and useKeyboard
    lHook,          \* which of the three the component uses
    lPhase,         \* "mounting" (first render done), "mounted", "unmounted"
    lPending,       \* TRUE while the effect of the latest render has yet to run
    listeners,      \* the listeners registered on window: [type, handler]
    added,          \* the handler the latest effect run registered, 0 if none
    eventHandler,   \* the eventHandler argument of the latest render (useKeyboard)
    innerSize,      \* window.innerWidth and window.innerHeight
    windowSize,     \* the windowSize state as of the last render
    mousePosition,  \* the mousePosition state as of the last render
    lQueue,         \* the values passed to the state setter since the last render
    handlerRuns,    \* history: handler invocations by dispatched events
    keyCalled       \* history: the handlers the latest keydown event invoked

arrayVars == <<defaultValue, array, arrayQueue, arrayLog>>
storageVars == <<storage, key, initial, data, dataQueue, storageEffect, renders>>
timerVars == <<hook, phase, callback, delay, dependencies, callbackRef,
               timeoutRef, dirty, timers, nextTimer, invoked, lastCalled, setWith,
               firedId, callsSinceSet, touched, cleared, lastOp>>
updateVars == <<uePhase, ueCallback, ueDependencies, isFirstRender, uePending,
                ueInvoked, ueLastCalled, ueChanges>>
toggleVars == <<toggleDefault, toggle, toggleQueue, toggleLog>>
listenerVars == <<lHook, lPhase, lPending, listeners, added, eventHandler,
                  innerSize, windowSize, mousePosition, lQueue, handlerRuns,
                  keyCalled>>
vars == <<defaultValue, array, arrayQueue, arrayLog,
          storage, key, initial, data, dataQueue, storageEffect, renders,
          hook, phase, callback, delay, dependencies, callbackRef,
          timeoutRef, dirty, timers, nextTimer, invoked, lastCalled, setWith,
          firedId, callsSinceSet, touched, cleared, lastOp,
          uePhase, ueCallback, ueDependencies, isFirstRender, uePending,
          ueInvoked, ueLastCalled, ueChanges,
          toggleDefault, toggle, toggleQueue, toggleLog,
          lHook, lPhase, lPending, listeners, added, eventHandler,
          innerSize, windowSize, mousePosition, lQueue, handlerRuns,
          keyCalled>>

\* what the steps of one hook leave alone: the variables of the other hooks
exceptArray == <<storageVars, timerVars, updateVars, toggleVars,
    listenerVars>>
exceptStorage == <<arrayVars, timerVars, updateVars, toggleVars,
    listenerVars>>
exceptTimer == <<arrayVars, storageVars, updateVars, toggleVars,
    listenerVars>>
exceptUpdate == <<arrayVars, storageVars, timerVars, toggleVars,
    listenerVars>>
exceptToggle == <<arrayVars, storageVars, timerVars, updateVars,
    listenerVars>>
exceptListener == <<arrayVars, storageVars, timerVars, updateVars,
    toggleVars>>

Min(a, b) == IF a < b THEN a ELSE b
Max(a, b) == IF a > b THEN a ELSE b

(***************************************************************************)
(* Bounds of the model.                                                    *)
(***************************************************************************)
MaxLen == 2        \* longest default array; indices passed run over 0..MaxLen
MaxCalls == 2      \* arrayControl calls made after mount
MaxQueue == 2      \* setData calls made between two renders
MaxRenders == 3    \* renders of the useLocalStorage component
MaxTimers == 4     \* setTimeout calls of one component
MaxEvents == 3     \* handler invocations by window events
MaxToggles == 3    \* changeToggle calls made after mount
MaxChanges == 3    \* renders of a useUpdateEffect component with changed dependencies

Values == {"a", "b"}

(***************************************************************************)
(* useArray                                                                *)
(***************************************************************************)

\* Array.prototype.slice(start, end) on a sequence, indices counted from 0:
\* a negative index counts from the end, both are clamped to 0..length.
Slice(s, start, end) ==
    LET len == Len(s)
        from == IF start < 0 THEN Max(len + start, 0) ELSE Min(start, len)
        to == IF end < 0 THEN Max(len + end, 0) ELSE Min(end, len)
    IN  IF from < to THEN SubSeq(s, from + 1, to) ELSE <<>>

\* push written against the array of the render instead of prev
PushStale(prev, value) == Append(array, value)

\* the updater functions handed to setArray
PushUpdater(prev, value) == Append(prev, value)

RemoveUpdater(prev, index) ==
    Slice(prev, 0, index) \o Slice(prev, index + 1, Len(prev) - 1)

UpdateUpdater(prev, index, value) ==
    Slice(prev, 0, index) \o <<value>> \o Slice(prev, index + 1, Len(prev) - 1)

\* a filter callback is modelled by the set of values it answers true for
FilterUpdater(prev, keep) == SelectSeq(prev, LAMBDA x : x \in keep)

ApplyUpdate(prev, u) ==
    CASE u.op = "clear" -> <<>>
      [] u.op = "push" -> PushUpdater(prev, u.value)
      [] u.op = "remove" -> RemoveUpdater(prev, u.index)
      [] u.op = "update" -> UpdateUpdater(prev, u.index, u.value)
      [] u.op = "filter" -> FilterUpdater(prev, u.keep)

\* React applies the queued updates in the order of the calls
RECURSIVE ApplyQueue(_, _)
ApplyQueue(prev, q) ==
    IF q = <<>> THEN prev ELSE ApplyQueue(ApplyUpdate(prev, Head(q)), Tail(q))

SeqsUpTo(S, n) == UNION {[1..k -> S] : k \in 0..n}

ArrayIdle ==
    /\ defaultValue = <<>>
    /\ array = <<>>
    /\ arrayQueue = <<>>
    /\ arrayLog = <<>>

\* useState(defaultValue ? defaultValue : []): an array is truthy, also the
\* empty one; no argument gives []
ArrayInit ==
    /\ defaultValue \in SeqsUpTo(Values, MaxLen)
    /\ array = defaultValue
    /\ arrayQueue = <<>>
    /\ arrayLog = <<>>

\* setArray(updater): the updater is queued until the next render
SetArray(queue, u) == Append(queue, u)

\* clear: () => setArray([])
ArrayClear ==
    LET u == [op |-> "clear"]
    IN  /\ Len(arrayLog) < MaxCalls
        /\ arrayQueue' = SetArray(arrayQueue, u)
        /\ arrayLog' = Append(arrayLog, u)
        /\ UNCHANGED <<defaultValue, array>>
        /\ UNCHANGED exceptArray

\* push(value)
ArrayPush ==
    \E v \in Values :
        LET u == [op |-> "push", value |-> v]
        IN  /\ Len(arrayLog) < MaxCalls
            /\ arrayQueue' = SetArray(arrayQueue, u)
            /\ arrayLog' = Append(arrayLog, u)
            /\ UNCHANGED <<defaultValue, array>>
            /\ UNCHANGED exceptArray

\* remove(index)
ArrayRemove ==
    \E i \in 0..MaxLen :
        LET u == [op |-> "remove", index |-> i]
        IN  /\ Len(arrayLog) < MaxCalls
            /\ arrayQueue' = SetArray(arrayQueue, u)
            /\ arrayLog' = Append(arrayLog, u)
            /\ UNCHANGED <<defaultValue, array>>
            /\ UNCHANGED exceptArray

\* update(index, value)
ArrayUpdate ==
    \E i \in 0..MaxLen, v \in Values :
        LET u == [op |-> "update", index |-> i, value |-> v]
        IN  /\ Len(arrayLog) < MaxCalls
            /\ arrayQueue' = SetArray(arrayQueue, u)
            /\ arrayLog' = Append(arrayLog, u)
            /\ UNCHANGED <<defaultValue, array>>
            /\ UNCHANGED exceptArray

\* filter(callback)
ArrayFilter ==
    \E keep \in {{}, {"a"}} :
        LET u == [op |-> "filter", keep |-> keep]
        IN  /\ Len(arrayLog) < MaxCalls
            /\ arrayQueue' = SetArray(arrayQueue, u)
            /\ arrayLog' = Append(arrayLog, u)
            /\ UNCHANGED <<defaultValue, array>>
            /\ UNCHANGED exceptArray

\* the render after one or more setArray calls
ArrayRender ==
    /\ arrayQueue # <<>>
    /\ array' = ApplyQueue(array, arrayQueue)
    /\ arrayQueue' = <<>>
    /\ UNCHANGED <<defaultValue, arrayLog>>
    /\ UNCHANGED exceptArray

(***************************************************************************)
(* useLocalStorage                                                         *)
(***************************************************************************)
Keys == {"k1", "k2"}
Strings == {"", "a", "b"}

\* localStorage.getItem: null (<<>>) when there is no item under the key
GetItem(st, k) == st[k]

\* localStorage.setItem
SetItem(st, k, v) == [st EXCEPT ![k] = <<v>>]

\* JavaScript's truthiness of string | null: null and "" are falsy
Truthy(local) == local # <<>> /\ local[1] # ""

\* the lazy initial state: local ? local : initial
InitialData(st, k, init) ==
    LET local == GetItem(st, k) IN IF Truthy(local) THEN local[1] ELSE init

\* the effect with key left out of its dependencies
StorageDepsDataOnly(oldKey, oldData, newKey, newData) == oldData # newData

\* the dependencies [key, data] of the effect differ from the previous render's
StorageDepsChanged(oldKey, oldData, newKey, newData) ==
    oldKey # newKey \/ oldData # newData

StorageIdle ==
    /\ storage = [k \in Keys |-> <<>>]
    /\ key = "k1"
    /\ initial = ""
    /\ data = ""
    /\ dataQueue = <<>>
    /\ storageEffect = FALSE
    /\ renders = 0

\* before the first render: what localStorage holds and the arguments
StorageInit ==
    /\ storage \in [Keys -> {<<>>} \cup {<<s>> : s \in Strings}]
    /\ key \in Keys
    /\ initial \in Strings
    /\ data = ""
    /\ dataQueue = <<>>
    /\ storageEffect = FALSE
    /\ renders = 0

\* the first render: useState runs its initialiser, the effect is left to run
StorageMount ==
    /\ renders = 0
    /\ data' = InitialData(storage, key, initial)
    /\ storageEffect' = TRUE
    /\ renders' = 1
    /\ UNCHANGED <<storage, key, initial, dataQueue>>
    /\ UNCHANGED exceptStorage

\* setData(value), queued until the next render
SetData ==
    \E v \in Strings :
        /\ renders > 0
        /\ Len(dataQueue) < MaxQueue
        /\ dataQueue' = Append(dataQueue, v)
        /\ UNCHANGED <<storage, key, initial, data, storageEffect, renders>>
        /\ UNCHANGED exceptStorage

\* a later render, with the same or another key: the queued values are
\* applied (the last one stands) and the effect is left to run when key or
\* data differs from the previous render.  React runs the effects of a render
\* before it renders again.
StorageRender ==
    \E k \in Keys :
        /\ renders > 0
        /\ renders < MaxRenders
        /\ ~storageEffect
        /\ LET newData == IF dataQueue = <<>> THEN data
                          ELSE dataQueue[Len(dataQueue)]
           IN  /\ data' = newData
               /\ storageEffect' = StorageDepsChanged(key, data, k, newData)
        /\ key' = k
        /\ dataQueue' = <<>>
        /\ renders' = renders + 1
        /\ UNCHANGED <<storage, initial>>
        /\ UNCHANGED exceptStorage

\* the effect: window.localStorage.setItem(key, data)
StorageRunEffect ==
    /\ storageEffect
    /\ storage' = SetItem(storage, key, data)
    /\ storageEffect' = FALSE
    /\ UNCHANGED <<key, initial, data, dataQueue, renders>>
    /\ UNCHANGED exceptStorage

(***************************************************************************)
(* useTimeout and useDelay                                                 *)
(*                                                                         *)
(* useDelay is useTimeout plus two effects, so one machine models both;    *)
(* hook says which one the component uses.  The timer state is the record  *)
(* [ref, pending, next]: timeoutRef.current, the pending browser timers    *)
(* and the id the next setTimeout returns.                                 *)
(*                                                                         *)
(* A render and the pass of its effects are two steps (React runs effects  *)
(* after the commit).  React runs the pending effects before it renders    *)
(* or unmounts the component again, and before an event handler that       *)
(* calls reset or clear; a browser timer may fire in between.              *)
(***************************************************************************)
Callbacks == {1, 2}
Delays == {1, 2}
Dependencies == {<<0, 0>>, <<0, 1>>, <<1, 1>>}

\* clearTimeout(id): an id that is not pending is ignored
ClearTimeout(pending, id) == pending \ {id}

\* set: timeoutRef.current = setTimeout(() => callbackRef.current(), delay)
set(t) == [ref |-> t.next, pending |-> t.pending \cup {t.next}, next |-> t.next + 1]

\* clear that cancels nothing
clearNothing(t) == t

\* clear: timeoutRef.current && clearTimeout(timeoutRef.current)
clear(t) == IF t.ref # 0 THEN [t EXCEPT !.pending = ClearTimeout(@, t.ref)] ELSE t

\* reset without its clear()
resetNoClear(t) == set(t)

\* reset: clear(); set()
reset(t) == set(clear(t))

\* the cleanup left out of the timeout effect
NoCleanup(t) == t

\* the cleanup the timeout effect returns: clear
TimeoutCleanup(t) == clear(t)

\* the timeout effect run by every render
TimeoutDepsAlways(oldDelay, newDelay) == TRUE

\* dependencies [delay, set, clear] of the timeout effect: set changes with
\* delay (useCallback [delay]), clear never does
TimeoutDepsChanged(oldDelay, newDelay) == oldDelay # newDelay

\* the reset effect blind to the dependencies
ResetDepsDelayOnly(oldDeps, newDeps, oldDelay, newDelay) == oldDelay # newDelay

\* dependencies [...dependencies, reset] of useDelay's first effect: reset
\* changes with set, which changes with delay
ResetDepsChanged(oldDeps, newDeps, oldDelay, newDelay) ==
    \/ \E k \in 1..Len(newDeps) : oldDeps[k] # newDeps[k]
    \/ oldDelay # newDelay

\* the callback effect left out: the ref keeps the callback of the first render
CallbackEffectNever(d, cb, ref) == ref

\* the callback effect: callbackRef.current = callback, when callback changed
CallbackEffect(d, cb, ref) == IF "callbackEffect" \in d THEN cb ELSE ref

\* the effects of a hook, in declaration order: callbackEffect (lines
\* 126-128), timeoutEffect (138-141), resetEffect (159), clearEffect (160)
EffectsOf(h) ==
    IF h = "useDelay"
    THEN {"callbackEffect", "timeoutEffect", "resetEffect", "clearEffect"}
    ELSE {"callbackEffect", "timeoutEffect"}

\* the effects a render leaves to run, from what changed since the last one
DirtyEffects(h, oldCb, newCb, oldDelay, newDelay, oldDeps, newDeps) ==
    {e \in EffectsOf(h) :
        \/ e = "callbackEffect" /\ oldCb # newCb
        \/ e = "timeoutEffect" /\ TimeoutDepsChanged(oldDelay, newDelay)
        \/ e = "resetEffect" /\ ResetDepsChanged(oldDeps, newDeps, oldDelay, newDelay)}

\* one pass of the effects in d: first the cleanups of the effects that run
\* again (none on mount), then the effects in declaration order.  Only the
\* timeout effect returns a cleanup; reset and clear return undefined.
EffectPass(t, d, mounting) ==
    LET t1 == IF "timeoutEffect" \in d /\ ~mounting THEN TimeoutCleanup(t) ELSE t
        t2 == IF "timeoutEffect" \in d THEN set(t1) ELSE t1
        t3 == IF "resetEffect" \in d THEN reset(t2) ELSE t2
        t4 == IF "clearEffect" \in d THEN clear(t3) ELSE t3
    IN  t4

\* the number of timers a pass of the effects in d starts
Starts(d) == Cardinality(d \cap {"timeoutEffect", "resetEffect"})

Timer == [ref |-> timeoutRef, pending |-> timers, next |-> nextTimer]

\* the timer state and the history of set() after a handler or effect pass
TimerBecomes(t) ==
    /\ timeoutRef' = t.ref
    /\ timers' = t.pending
    /\ nextTimer' = t.next
    /\ callsSinceSet' = IF t.next > nextTimer THEN 0 ELSE callsSinceSet
    /\ cleared' = IF t.next > nextTimer THEN FALSE ELSE cleared
    /\ setWith' = IF t.next > nextTimer THEN callback ELSE setWith

TimerIdle ==
    /\ hook = "useTimeout"
    /\ phase = "unmounted"
    /\ callback = 1
    /\ delay = 1
    /\ dependencies = <<0, 0>>
    /\ callbackRef = 1
    /\ timeoutRef = 0
    /\ dirty = {}
    /\ timers = {}
    /\ nextTimer = 1
    /\ invoked = 0
    /\ lastCalled = 0
    /\ setWith = 0
    /\ firedId = 0
    /\ callsSinceSet = 0
    /\ touched = FALSE
    /\ cleared = FALSE
    /\ lastOp = "none"

\* after the first render: useRef(callback), useRef(), every effect to run
TimerInit ==
    /\ hook \in {"useTimeout", "useDelay"}
    /\ phase = "mounting"
    /\ callback \in Callbacks
    /\ delay \in Delays
    /\ dependencies \in (IF hook = "useDelay" THEN Dependencies ELSE {<<0, 0>>})
    /\ callbackRef = callback
    /\ timeoutRef = 0
    /\ dirty = EffectsOf(hook)
    /\ timers = {}
    /\ nextTimer = 1
    /\ invoked = 0
    /\ lastCalled = 0
    /\ setWith = 0
    /\ firedId = 0
    /\ callsSinceSet = 0
    /\ touched = FALSE
    /\ cleared = FALSE
    /\ lastOp = "render"

\* the effects of the latest render run
TimerRunEffects ==
    /\ phase \in {"mounting", "mounted"}
    /\ dirty # {}
    /\ TimerBecomes(EffectPass(Timer, dirty, phase = "mounting"))
    /\ callbackRef' = CallbackEffect(dirty, callback, callbackRef)
    /\ dirty' = {}
    /\ phase' = "mounted"
    /\ lastOp' = "effects"
    /\ UNCHANGED <<hook, callback, delay, dependencies, invoked, lastCalled,
                   firedId, touched>>
    /\ UNCHANGED exceptTimer

\* a later render, with the same or other arguments
TimerRender ==
    \E cb \in Callbacks, d \in Delays, deps \in Dependencies :
        LET left == DirtyEffects(hook, callback, cb, delay, d, dependencies, deps)
        IN  /\ phase = "mounted"
            /\ dirty = {}
            /\ hook = "useTimeout" => deps = dependencies
            /\ nextTimer + Starts(left) <= MaxTimers + 1
            /\ callback' = cb
            /\ delay' = d
            /\ dependencies' = deps
            /\ dirty' = left
            /\ touched' = (touched \/ d # delay \/ deps # dependencies)
            /\ lastOp' = "render"
            /\ UNCHANGED <<hook, phase, callbackRef, timeoutRef, timers, nextTimer,
                           invoked, lastCalled, setWith, firedId, callsSinceSet,
                           cleared>>
            /\ UNCHANGED exceptTimer

\* the component calls the reset that useTimeout returned
TimerReset ==
    /\ hook = "useTimeout"
    /\ phase = "mounted"
    /\ dirty = {}
    /\ nextTimer <= MaxTimers
    /\ TimerBecomes(reset(Timer))
    /\ touched' = TRUE
    /\ lastOp' = "reset"
    /\ UNCHANGED <<hook, phase, callback, delay, dependencies, callbackRef, dirty,
                   invoked, lastCalled, firedId>>
    /\ UNCHANGED exceptTimer

\* the component calls the clear that useTimeout returned
TimerClear ==
    /\ hook = "useTimeout"
    /\ phase = "mounted"
    /\ dirty = {}
    /\ timeoutRef' = clear(Timer).ref
    /\ timers' = clear(Timer).pending
    /\ nextTimer' = clear(Timer).next
    /\ cleared' = TRUE
    /\ touched' = TRUE
    /\ lastOp' = "clear"
    /\ UNCHANGED <<hook, phase, callback, delay, dependencies, callbackRef, dirty,
                   invoked, lastCalled, setWith, firedId, callsSinceSet>>
    /\ UNCHANGED exceptTimer

\* a pending timer fires: () => callbackRef.current()
TimerFire ==
    \E id \in timers :
        /\ timers' = timers \ {id}
        /\ invoked' = invoked + 1
        /\ lastCalled' = callbackRef
        /\ UNCHANGED setWith
        /\ firedId' = id
        /\ callsSinceSet' = callsSinceSet + 1
        /\ lastOp' = "fire"
        /\ UNCHANGED <<hook, phase, callback, delay, dependencies, callbackRef,
                       timeoutRef, dirty, nextTimer, touched, cleared>>
        /\ UNCHANGED exceptTimer

\* the component unmounts: the cleanup of the timeout effect runs
TimerUnmount ==
    /\ phase = "mounted"
    /\ dirty = {}
    /\ timeoutRef' = TimeoutCleanup(Timer).ref
    /\ timers' = TimeoutCleanup(Timer).pending
    /\ nextTimer' = TimeoutCleanup(Timer).next
    /\ phase' = "unmounted"
    /\ lastOp' = "unmount"
    /\ UNCHANGED <<hook, callback, delay, dependencies, callbackRef, dirty,
                   invoked, lastCalled, setWith, firedId, callsSinceSet, touched,
                   cleared>>
    /\ UNCHANGED exceptTimer

(***************************************************************************)
(* useUpdateEffect                                                         *)
(***************************************************************************)
\* the effect body with the first-render test left out
NeverFirst(first) == FALSE

\* if (isFirstRender.current) { isFirstRender.current = false; return; }
SkipsCallback(first) == first

\* the effect's dependencies are the dependencies argument
UpdateDepsChanged(oldDeps, newDeps) ==
    \E k \in 1..Len(newDeps) : oldDeps[k] # newDeps[k]

UpdateIdle ==
    /\ uePhase = "unmounted"
    /\ ueCallback = 1
    /\ ueDependencies = <<0, 0>>
    /\ isFirstRender = TRUE
    /\ uePending = FALSE
    /\ ueInvoked = 0
    /\ ueLastCalled = 0
    /\ ueChanges = 0

\* after the first render: useRef(true), the effect left to run
UpdateInit ==
    /\ uePhase = "mounting"
    /\ ueCallback \in Callbacks
    /\ ueDependencies \in Dependencies
    /\ isFirstRender = TRUE
    /\ uePending = TRUE
    /\ ueInvoked = 0
    /\ ueLastCalled = 0
    /\ ueChanges = 0

\* the effect of the latest render runs
UpdateRunEffect ==
    /\ uePhase \in {"mounting", "mounted"}
    /\ uePending
    /\ IF SkipsCallback(isFirstRender)
       THEN /\ isFirstRender' = FALSE
            /\ UNCHANGED <<ueInvoked, ueLastCalled>>
       ELSE /\ ueInvoked' = ueInvoked + 1
            /\ ueLastCalled' = ueCallback
            /\ UNCHANGED isFirstRender
    /\ uePending' = FALSE
    /\ uePhase' = "mounted"
    /\ UNCHANGED <<ueCallback, ueDependencies, ueChanges>>
    /\ UNCHANGED exceptUpdate

\* a later render, with the same or other arguments
UpdateRender ==
    \E cb \in Callbacks, deps \in Dependencies :
        LET changed == UpdateDepsChanged(ueDependencies, deps)
        IN  /\ uePhase = "mounted"
            /\ ~uePending
            /\ changed => ueChanges < MaxChanges
            /\ ueCallback' = cb
            /\ ueDependencies' = deps
            /\ uePending' = changed
            /\ ueChanges' = IF changed THEN ueChanges + 1 ELSE ueChanges
            /\ UNCHANGED <<uePhase, isFirstRender, ueInvoked, ueLastCalled>>
            /\ UNCHANGED exceptUpdate

\* the component unmounts; the effect returned no cleanup
UpdateUnmount ==
    /\ uePhase = "mounted"
    /\ ~uePending
    /\ uePhase' = "unmounted"
    /\ UNCHANGED <<ueCallback, ueDependencies, isFirstRender, uePending,
                   ueInvoked, ueLastCalled, ueChanges>>
    /\ UNCHANGED exceptUpdate

(***************************************************************************)
(* useToggle                                                               *)
(***************************************************************************)
\* the arguments changeToggle is called with: true, false, null, undefined
ToggleArgs == {"true", "false", "null", "undefined"}

\* JavaScript's typeof
Typeof(v) ==
    CASE v \in {"true", "false"} -> "boolean"
      [] v = "null" -> "object"
      [] v = "undefined" -> "undefined"

\* the boolean an argument of type boolean is
BooleanOf(v) == v = "true"

\* the negation taken of the state of the render instead of prev
ToggleStale(prev, value) ==
    IF Typeof(value) = "boolean" THEN BooleanOf(value) ELSE ~toggle

\* (prev) => (typeof value === 'boolean' ? value : !prev)
ToggleUpdater(prev, value) ==
    IF Typeof(value) = "boolean" THEN BooleanOf(value) ELSE ~prev

\* React applies the queued updates in the order of the calls
RECURSIVE ApplyToggles(_, _)
ApplyToggles(prev, q) ==
    IF q = <<>> THEN prev ELSE ApplyToggles(ToggleUpdater(prev, Head(q)), Tail(q))

ToggleIdle ==
    /\ toggleDefault = FALSE
    /\ toggle = FALSE
    /\ toggleQueue = <<>>
    /\ toggleLog = <<>>

\* useState(defaultValue)
ToggleInit ==
    /\ toggleDefault \in BOOLEAN
    /\ toggle = toggleDefault
    /\ toggleQueue = <<>>
    /\ toggleLog = <<>>

\* changeToggle(value): setToggle(updater), queued until the next render
ChangeToggle ==
    \E value \in ToggleArgs :
        /\ Len(toggleLog) < MaxToggles
        /\ toggleQueue' = Append(toggleQueue, value)
        /\ toggleLog' = Append(toggleLog, value)
        /\ UNCHANGED <<toggleDefault, toggle>>
        /\ UNCHANGED exceptToggle

\* the render after one or more changeToggle calls
ToggleRender ==
    /\ toggleQueue # <<>>
    /\ toggle' = ApplyToggles(toggle, toggleQueue)
    /\ toggleQueue' = <<>>
    /\ UNCHANGED <<toggleDefault, toggleLog>>
    /\ UNCHANGED exceptToggle

(***************************************************************************)
(* useWindowSize, useMouse and useKeyboard                                 *)
(*                                                                         *)
(* One machine models the three hooks that register a listener on window;  *)
(* lHook says which one the component uses.  window keeps one listener per *)
(* (type, function): adding the same function again adds nothing.  The     *)
(* browser dispatches its events whether the component is mounted or not.  *)
(***************************************************************************)
Sizes == {[width |-> 1, height |-> 1], [width |-> 2, height |-> 1],
          [width |-> 2, height |-> 2]}
Positions == {[x |-> 1, y |-> 1], [x |-> 1, y |-> 2]}

\* the event type a hook listens to
EventType(h) ==
    CASE h = "useWindowSize" -> "resize"
      [] h = "useMouse" -> "mousemove"
      [] h = "useKeyboard" -> "keydown"

\* window.addEventListener(type, handler)
AddEventListener(ls, type, handler) ==
    ls \cup {[type |-> type, handler |-> handler]}

\* the cleanup left out of the effect
RemoveNothing(ls, type, handler) == ls

\* window.removeEventListener(type, handler)
RemoveEventListener(ls, type, handler) ==
    ls \ {[type |-> type, handler |-> handler]}

\* the handlers window calls for an event of a type
HandlersOf(ls, type) == {l.handler : l \in {k \in ls : k.type = type}}

\* the mount effect of useWindowSize without its own call of the handler
NoInitialRead(q, size) == q

\* handleWindowResize() in the mount effect: setWindowSize of the window's size
InitialRead(q, size) == Append(q, size)

\* useKeyboard's effect given [] as its dependencies
KeyboardDepsNone(oldHandler, newHandler) == FALSE

\* useKeyboard's effect has no dependency array: it runs after every render
KeyboardDepsChanged(oldHandler, newHandler) == TRUE

\* the function a hook registers: the closure of its mount effect (1), or
\* the eventHandler of the render
HandlerOf(h, handler) == IF h = "useKeyboard" THEN handler ELSE 1

ListenerIdle ==
    /\ lHook = "useWindowSize"
    /\ lPhase = "unmounted"
    /\ lPending = FALSE
    /\ listeners = {}
    /\ added = 0
    /\ eventHandler = 1
    /\ innerSize = [width |-> 1, height |-> 1]
    /\ windowSize = [width |-> 0, height |-> 0]
    /\ mousePosition = [x |-> 0, y |-> 0]
    /\ lQueue = <<>>
    /\ handlerRuns = 0
    /\ keyCalled = {}

\* after the first render: the state cells at their initial value, the
\* effect left to run
ListenerInit ==
    /\ lHook \in {"useWindowSize", "useMouse", "useKeyboard"}
    /\ lPhase = "mounting"
    /\ lPending = TRUE
    /\ listeners = {}
    /\ added = 0
    /\ eventHandler \in (IF lHook = "useKeyboard" THEN Callbacks ELSE {1})
    /\ innerSize \in Sizes
    /\ windowSize = [width |-> 0, height |-> 0]
    /\ mousePosition = [x |-> 0, y |-> 0]
    /\ lQueue = <<>>
    /\ handlerRuns = 0
    /\ keyCalled = {}

\* the effect of the latest render runs: the cleanup of its previous run
\* (none on mount), then the effect
ListenerRunEffect ==
    LET type == EventType(lHook)
        handler == HandlerOf(lHook, eventHandler)
        cleaned == IF lPhase = "mounting" THEN listeners
                   ELSE RemoveEventListener(listeners, type, added)
    IN  /\ lPhase \in {"mounting", "mounted"}
        /\ lPending
        /\ listeners' = AddEventListener(cleaned, type, handler)
        /\ added' = handler
        /\ lQueue' = IF lHook = "useWindowSize"
                     THEN InitialRead(lQueue, innerSize) ELSE lQueue
        /\ lPending' = FALSE
        /\ lPhase' = "mounted"
        /\ UNCHANGED <<lHook, eventHandler, innerSize, windowSize, mousePosition,
                       handlerRuns, keyCalled>>
        /\ UNCHANGED exceptListener

\* a later render: the queued values are applied (the last one stands);
\* useKeyboard may be given another eventHandler
ListenerRender ==
    \E h \in Callbacks :
        LET last == lQueue[Len(lQueue)]
        IN  /\ lPhase = "mounted"
            /\ ~lPending
            /\ lHook # "useKeyboard" => h = eventHandler
            /\ windowSize' = IF lHook = "useWindowSize" /\ lQueue # <<>>
                             THEN last ELSE windowSize
            /\ mousePosition' = IF lHook = "useMouse" /\ lQueue # <<>>
                                THEN last ELSE mousePosition
            /\ lQueue' = <<>>
            /\ eventHandler' = h
            /\ lPending' = (lHook = "useKeyboard" /\ KeyboardDepsChanged(eventHandler, h))
            /\ UNCHANGED <<lHook, lPhase, listeners, added, innerSize, handlerRuns,
                           keyCalled>>
            /\ UNCHANGED exceptListener

\* the window is resized: handleWindowResize, if registered, reads the new size
Resize ==
    \E size \in Sizes :
        LET called == HandlersOf(listeners, "resize")
        IN  /\ handlerRuns + Cardinality(called) <= MaxEvents
            /\ innerSize' = size
            /\ lQueue' = IF called # {} THEN Append(lQueue, size) ELSE lQueue
            /\ handlerRuns' = handlerRuns + Cardinality(called)
            /\ UNCHANGED <<lHook, lPhase, lPending, listeners, added, eventHandler,
                           windowSize, mousePosition, keyCalled>>
            /\ UNCHANGED exceptListener

\* the mouse moves: handleMouseMovement, if registered, takes the position
MouseMove ==
    \E pos \in Positions :
        LET called == HandlersOf(listeners, "mousemove")
        IN  /\ handlerRuns + Cardinality(called) <= MaxEvents
            /\ lQueue' = IF called # {} THEN Append(lQueue, pos) ELSE lQueue
            /\ handlerRuns' = handlerRuns + Cardinality(called)
            /\ UNCHANGED <<lHook, lPhase, lPending, listeners, added, eventHandler,
                           innerSize, windowSize, mousePosition, keyCalled>>
            /\ UNCHANGED exceptListener

\* a key goes down: window calls the registered keydown listeners
KeyDown ==
    LET called == HandlersOf(listeners, "keydown")
    IN  /\ handlerRuns + Cardinality(called) <= MaxEvents
        /\ keyCalled' = called
        /\ handlerRuns' = handlerRuns + Cardinality(called)
        /\ UNCHANGED <<lHook, lPhase, lPending, listeners, added, eventHandler,
                       innerSize, windowSize, mousePosition, lQueue>>
        /\ UNCHANGED exceptListener

\* the component unmounts: the cleanup of the effect runs
ListenerUnmount ==
    /\ lPhase = "mounted"
    /\ ~lPending
    /\ listeners' = RemoveEventListener(listeners, EventType(lHook), added)
    /\ lPhase' = "unmounted"
    /\ UNCHANGED <<lHook, lPending, added, eventHandler, innerSize, windowSize,
                   mousePosition, lQueue, handlerRuns, keyCalled>>
    /\ UNCHANGED exceptListener

(***************************************************************************)
(* Specifications                                                          *)
(***************************************************************************)
ArrayNext ==
    \/ ArrayClear
    \/ ArrayPush
    \/ ArrayRemove
    \/ ArrayUpdate
    \/ ArrayFilter
    \/ ArrayRender

ArraySpecInit == ArrayInit /\ StorageIdle /\ TimerIdle /\ UpdateIdle /\ ToggleIdle
    /\ ListenerIdle

ArraySpec == ArraySpecInit /\ [][ArrayNext]_vars

StorageNext ==
    \/ StorageMount
    \/ SetData
    \/ StorageRender
    \/ StorageRunEffect

StorageSpecInit == StorageInit /\ ArrayIdle /\ TimerIdle /\ UpdateIdle /\ ToggleIdle
    /\ ListenerIdle

StorageSpec == StorageSpecInit /\ [][StorageNext]_vars

TimerNext ==
    \/ TimerRunEffects
    \/ TimerRender
    \/ TimerReset
    \/ TimerClear
    \/ TimerFire
    \/ TimerUnmount

TimerSpecInit == TimerInit /\ ArrayIdle /\ StorageIdle /\ UpdateIdle /\ ToggleIdle
    /\ ListenerIdle

TimerSpec == TimerSpecInit /\ [][TimerNext]_vars

\* React runs the effects a render left, and a pending browser timer that is
\* not cleared fires
TimerFairSpec ==
    /\ TimerSpecInit
    /\ [][TimerNext]_vars
    /\ WF_vars(TimerRunEffects)
    /\ WF_vars(TimerFire)

UpdateNext ==
    \/ UpdateRunEffect
    \/ UpdateRender
    \/ UpdateUnmount

UpdateSpecInit == UpdateInit /\ ArrayIdle /\ StorageIdle /\ TimerIdle /\ ToggleIdle
    /\ ListenerIdle

UpdateSpec == UpdateSpecInit /\ [][UpdateNext]_vars

ToggleNext ==
    \/ ChangeToggle
    \/ ToggleRender

ToggleSpecInit ==
    ToggleInit /\ ArrayIdle /\ StorageIdle /\ TimerIdle /\ UpdateIdle
    /\ ListenerIdle

ToggleSpec == ToggleSpecInit /\ [][ToggleNext]_vars

ListenerNext ==
    \/ ListenerRunEffect
    \/ ListenerRender
    \/ Resize
    \/ MouseMove
    \/ KeyDown
    \/ ListenerUnmount

ListenerSpecInit ==
    ListenerInit /\ ArrayIdle /\ StorageIdle /\ TimerIdle /\ UpdateIdle
    /\ ToggleIdle

ListenerSpec == ListenerSpecInit /\ [][ListenerNext]_vars

(***************************************************************************)
(* useArray: properties                                                    *)
(***************************************************************************)
\* s without its element at position i (counted from 0)
WithoutAt(s, i) == [k \in 1..(Len(s) - 1) |-> IF k <= i THEN s[k] ELSE s[k + 1]]

\* s with v at position i (counted from 0)
WithAt(s, i, v) == [k \in 1..Len(s) |-> IF k = i + 1 THEN v ELSE s[k]]

\* the one call made so far, rendered
OnlyCallRendered(op) ==
    /\ Len(arrayLog) = 1
    /\ arrayLog[1].op = op
    /\ arrayQueue = <<>>

\* C1: once remove(i) with 0 <= i < n has been applied to an array of length
\* n, the array is the previous one without its element at i: length n-1,
\* every other element kept, the last one included.
C1_RemoveDeletesOnlyIndex ==
    (OnlyCallRendered("remove") /\ arrayLog[1].index < Len(defaultValue))
        => array = WithoutAt(defaultValue, arrayLog[1].index)

\* C2: once update(i, v) with 0 <= i < n has been applied to an array of
\* length n, the array has length n, holds v at i and the previous element
\* everywhere else, the last position included.
C2_UpdateReplacesOnlyIndex ==
    (OnlyCallRendered("update") /\ arrayLog[1].index < Len(defaultValue))
        => array = WithAt(defaultValue, arrayLog[1].index, arrayLog[1].value)

OnlyPushes == \A k \in 1..Len(arrayLog) : arrayLog[k].op = "push"

PushedValues == [k \in 1..Len(arrayLog) |-> arrayLog[k].value]

\* C3: when every call made since mount is a push, the array state after the
\* render is the default array followed by the pushed values in call order,
\* however the calls fell between renders.
C3_PushAppendsInCallOrder ==
    (OnlyPushes /\ arrayQueue = <<>>) => array = defaultValue \o PushedValues

C3_Witness ==
    /\ Len(arrayLog) = MaxCalls
    /\ OnlyPushes
    /\ arrayQueue = <<>>
    /\ Len(defaultValue) > 0
    /\ array = defaultValue \o PushedValues
    /\ arrayLog[1].value # arrayLog[2].value

(***************************************************************************)
(* useLocalStorage: properties                                             *)
(***************************************************************************)
\* C4: on the first render the state is the stored string whenever an item
\* exists under key (the empty string included), and initial only when no
\* item exists.  (localStorage is as it was until the first effect runs.)
C4_InitialReadIsStoredItem ==
    (renders = 1 /\ storageEffect)
        => data = (IF GetItem(storage, key) # <<>>
                   THEN GetItem(storage, key)[1] ELSE initial)

\* C5: once the effects of the latest render have run, the item stored under
\* the current key is the current data state.
C5_WriteThrough ==
    (renders > 0 /\ ~storageEffect) => GetItem(storage, key) = <<data>>

C5_Witness ==
    /\ renders = MaxRenders
    /\ ~storageEffect
    /\ key = "k2"
    /\ data = "b"
    /\ GetItem(storage, "k2") = <<"b">>
    /\ GetItem(storage, "k1") = <<"a">>
    /\ initial = "a"

(***************************************************************************)
(* useTimeout and useDelay: properties                                     *)
(***************************************************************************)
\* a useTimeout component with no reset(), no clear() and no changed delay
\* since its mount
Untouched(h) == hook = h /\ ~touched

\* C6: a useTimeout component that stays mounted with no reset(), no clear()
\* and no changed delay has the timer of its mount pending until it fires,
\* the callback is invoked at most once whatever re-renders happen, and it
\* is eventually invoked once.
C6_TimeoutFiresOnce ==
    /\ [](Untouched("useTimeout") => invoked <= 1)
    /\ [](Untouched("useTimeout") /\ phase = "mounted"
            => (timers # {} /\ invoked = 0) \/ (timers = {} /\ invoked = 1))
    /\ <>(~Untouched("useTimeout") \/ phase = "unmounted" \/ invoked = 1)

C6_Witness ==
    /\ Untouched("useTimeout")
    /\ phase = "mounted"
    /\ invoked = 1
    /\ timers = {}
    /\ lastOp = "effects"
    /\ lastCalled # callbackRef

C9_DelayRestarts ==
    /\ [][(hook = "useDelay" /\ phase = "mounted"
             /\ "resetEffect" \in dirty /\ dirty' = {})
            => (/\ timeoutRef' >= nextTimer
                /\ timers' = {timeoutRef'}
                /\ callsSinceSet' = 0)]_vars
    /\ [](hook = "useDelay"
            => /\ callsSinceSet <= 1
               /\ callsSinceSet = 1 => firedId = nextTimer - 1)
    /\ (hook = "useDelay" /\ phase = "mounted" /\ touched /\ dirty = {}
          /\ callsSinceSet = 0)
         ~> (callsSinceSet = 1 \/ phase = "unmounted" \/ "resetEffect" \in dirty)

C9_Witness ==
    /\ hook = "useDelay"
    /\ phase = "mounted"
    /\ nextTimer = MaxTimers + 1
    /\ firedId = MaxTimers
    /\ invoked = 1
    /\ timers = {}

\* C10: a mounted useDelay component whose dependencies and delay have not
\* changed has, once the mount effects have run, a timer pending until the
\* callback has been invoked once.
C10_DelayRunsAfterMount ==
    (Untouched("useDelay") /\ phase = "mounted" /\ dirty = {})
        => (timers # {} /\ invoked = 0) \/ (timers = {} /\ invoked = 1)

(***************************************************************************)
(* useUpdateEffect: properties                                             *)
(***************************************************************************)
\* C11: the effect run of the mount does not invoke the callback, and each
\* later render with changed dependencies invokes it once, when its effect
\* runs; a render with unchanged dependencies does not.  So the number of
\* invocations is the number of dependency changes after mount, less the one
\* whose effect has yet to run.
C11_InvokedOncePerChange ==
    ueInvoked = (IF uePending /\ uePhase = "mounted"
                 THEN ueChanges - 1 ELSE ueChanges)

C11_Witness ==
    /\ uePhase = "mounted"
    /\ ~uePending
    /\ ueChanges = 2
    /\ ueInvoked = 2
    /\ ueLastCalled # ueCallback

(***************************************************************************)
(* useToggle: properties                                                   *)
(***************************************************************************)
\* the position of the last boolean argument in the log, 0 if there is none
LastBoolean ==
    LET at == {k \in 1..Len(toggleLog) : Typeof(toggleLog[k]) = "boolean"}
    IN  IF at = {} THEN 0 ELSE CHOOSE k \in at : \A j \in at : j <= k

\* C12: the state starts as defaultValue; a call with a boolean sets it to
\* that boolean, a call with null or undefined negates it, and queued calls
\* apply in call order.  So once the calls are rendered the state is the
\* last boolean passed (defaultValue if none), negated once for every
\* non-boolean call made after it: two such calls in a row restore it.
C12_ToggleSetsOrNegates ==
    toggleQueue = <<>> =>
        LET base == IF LastBoolean = 0 THEN toggleDefault
                    ELSE BooleanOf(toggleLog[LastBoolean])
            flips == Len(toggleLog) - LastBoolean
        IN  toggle = (IF flips % 2 = 0 THEN base ELSE ~base)

C12_Witness ==
    /\ Len(toggleLog) = 3
    /\ toggleQueue = <<>>
    /\ Typeof(toggleLog[1]) = "boolean"
    /\ toggleLog[2] = "null"
    /\ toggleLog[3] = "undefined"
    /\ toggle = BooleanOf(toggleLog[1])
    /\ toggle # toggleDefault

(***************************************************************************)
(* useWindowSize, useMouse and useKeyboard: properties                     *)
(***************************************************************************)
\* the listeners on window for the event type of the hook
OwnListeners == {l \in listeners : l.type = EventType(lHook)}

\* C13: a mounted instance (its mount effect has run) has exactly one
\* listener on window, for its event type, through re-renders and events;
\* after the unmount it has none, and an event dispatched then neither
\* queues a state update nor invokes a handler.
C13_ListenerBalance ==
    /\ [](lPhase = "mounted" => Cardinality(OwnListeners) = 1 /\ listeners = OwnListeners)
    /\ [](lPhase = "unmounted" => listeners = {})
    /\ [][lPhase = "unmounted"
            => UNCHANGED <<windowSize, mousePosition, lQueue, handlerRuns>>]_vars

C13_Witness ==
    /\ lHook = "useKeyboard"
    /\ lPhase = "unmounted"
    /\ listeners = {}
    /\ handlerRuns = 2
    /\ keyCalled = {}
    /\ added = 2

\* C14: the windowSize state is {width: 0, height: 0} on the first render;
\* once the mount effect has run, the size read last (by the mount effect or
\* by the handler of the latest resize event) is the window's inner size,
\* and it is the state as soon as the queued updates are rendered.
C14_WindowSizeTracks ==
    lHook = "useWindowSize" =>
        /\ lPhase = "mounting" => windowSize = [width |-> 0, height |-> 0]
        /\ (lPhase = "mounted" /\ lQueue # <<>>) => lQueue[Len(lQueue)] = innerSize
        /\ (lPhase = "mounted" /\ lQueue = <<>>) => windowSize = innerSize

C14_Witness ==
    /\ lHook = "useWindowSize"
    /\ lPhase = "mounted"
    /\ lQueue = <<>>
    /\ handlerRuns = 2
    /\ windowSize = [width |-> 2, height |-> 2]
    /\ innerSize = windowSize

====
